---- MODULE Spec2Model ----
(***************************************************************************)
(* MCP2210 Configurator: the configuration run (prepareTaskList,           *)
(* configureDevice and its tasks), the device read-back and the nearest    *)
(* compatible bit rate search of src/src/configuratorwindow.cpp, against a *)
(* model of the MCP2210 channel (the mcp2210_ member, whose class is not   *)
(* part of the sources at hand).                                           *)
(*                                                                         *)
(* quint32 bit rates are scaled: a bit rate is a number below              *)
(* 2^BitrateBits, and BITRATE_MIN, BITRATE_MAX are scaled with it so that  *)
(* 4 * BITRATE_MAX does not wrap while 4 * bitrate wraps for the largest   *)
(* quarter-and-above of the requests, as with 12 MHz in 32 bits.           *)
(***************************************************************************)
EXTENDS Integers, Sequences, FiniteSets, TLC

\* ---------------------------------------------------------------- bounds
\* Width, in bits, of the scaled quint32 that holds a bit rate.
BitrateBits == 5
\* Number of handler invocations (button clicks, edits) followed per session.
MaxOps == 2
\* Number of transient transport errors the channel reports per session.
MaxFaults == 1

\* ------------------------------------------------------ program constants
\* MCP2210Limits::BITRATE_MAX and BITRATE_MIN (mcp2210limits.h), scaled.
BITRATE_MAX == 6
BITRATE_MIN == 2

\* quint32 arithmetic wraps modulo 2^32 (here 2^BitrateBits).
UIntMod == 2 ^ BitrateBits
UInt(x) == ((x % UIntMod) + UIntMod) % UIntMod
Bitrates == 0 .. (UIntMod - 1)

\* ------------------------------------------------------------ data model
\* MCP2210::USBParameters: vid, pid, maxpow, powmode, rmwakeup.
USBParameters(vid, pid, maxpow, powmode, rmwakeup) ==
    [vid |-> vid, pid |-> pid, maxpow |-> maxpow, powmode |-> powmode,
     rmwakeup |-> rmwakeup]

\* MCP2210::ChipSettings: gp0..gp8 (as the tuple gp), gpdir, gpout,
\* rmwakeup, intmode, nrelspi.
ChipSettings(gp, gpdir, gpout, rmwakeup, intmode, nrelspi) ==
    [gp |-> gp, gpdir |-> gpdir, gpout |-> gpout, rmwakeup |-> rmwakeup,
     intmode |-> intmode, nrelspi |-> nrelspi]

\* MCP2210::SPISettings: nbytes, bitrate, mode, actcs, idlcs, csdtdly,
\* dtcsdly, itbytdly.
SPISettings(bitrate, mode) ==
    [nbytes |-> 1, bitrate |-> bitrate, mode |-> mode, actcs |-> 0,
     idlcs |-> 255, csdtdly |-> 0, dtcsdly |-> 0, itbytdly |-> 0]

\* The values the fields of a Configuration range over in this model.
ManufacturerDescs == {"Microchip Technology Inc.", "Acme"}
ProductDescs == {"MCP2210 USB-to-SPI Master", "Bridge"}
USBParametersSet ==
    {USBParameters(1240, 222, 50, 0, FALSE),
     USBParameters(1240, 222, 60, 0, FALSE),
     USBParameters(1240, 222, 50, 0, TRUE)}
ChipSettingsSet ==
    {ChipSettings(<<0, 0, 0, 0, 0, 0, 0, 0, 0>>, 255, 0, FALSE, 0, FALSE),
     ChipSettings(<<1, 0, 0, 0, 0, 0, 0, 0, 0>>, 255, 0, FALSE, 0, TRUE),
     ChipSettings(<<0, 0, 0, 0, 0, 0, 0, 0, 0>>, 254, 1, FALSE, 0, FALSE)}
SPISettingsSet ==
    {SPISettings(BITRATE_MAX, 0), SPISettings(BITRATE_MIN, 3),
     SPISettings(BITRATE_MAX, 3)}

\* struct Configuration: manufacturer, product, usbParameters, chipSettings,
\* spiSettings; operator== is the field-by-field comparison.
Configurations ==
    [manufacturer : ManufacturerDescs, product : ProductDescs,
     usbParameters : USBParametersSet, chipSettings : ChipSettingsSet,
     spiSettings : SPISettingsSet]

\* The configuration of a factory-fresh device.
DefaultConfiguration ==
    [manufacturer |-> "Microchip Technology Inc.",
     product |-> "MCP2210 USB-to-SPI Master",
     usbParameters |-> USBParameters(1240, 222, 50, 0, FALSE),
     chipSettings |->
         ChipSettings(<<0, 0, 0, 0, 0, 0, 0, 0, 0>>, 255, 0, FALSE, 0, FALSE),
     spiSettings |-> SPISettings(BITRATE_MAX, 0)]

\* ------------------------------------------------------- prepareTaskList
Task(cond, name) == IF cond THEN <<name>> ELSE <<>>

\* A slip that tests the manufacturer where the product is meant.
prepareTaskList_WrongField(edited, device, apply) ==
    Task(edited.manufacturer # device.manufacturer, "writeManufacturerDesc")
    \o Task(edited.manufacturer # device.manufacturer, "writeProductDesc")
    \o Task(edited.usbParameters # device.usbParameters, "writeUSBParameters")
    \o Task(edited.chipSettings # device.chipSettings, "writeChipSettings")
    \o <<"verifyConfiguration">>
    \o (IF apply
        THEN Task(edited.chipSettings # device.chipSettings,
                  "applyChipSettings")
             \o Task(edited.spiSettings # device.spiSettings,
                     "applySPISettings")
        ELSE <<>>)

\* A slip that puts the verification after the optional apply tasks.
prepareTaskList_VerifyLast(edited, device, apply) ==
    Task(edited.manufacturer # device.manufacturer, "writeManufacturerDesc")
    \o Task(edited.product # device.product, "writeProductDesc")
    \o Task(edited.usbParameters # device.usbParameters, "writeUSBParameters")
    \o Task(edited.chipSettings # device.chipSettings, "writeChipSettings")
    \o Task(apply /\ edited.chipSettings # device.chipSettings,
            "applyChipSettings")
    \o Task(apply /\ edited.spiSettings # device.spiSettings,
            "applySPISettings")
    \o <<"verifyConfiguration">>

\* A slip that forgets the "apply immediately" check box.
prepareTaskList_AlwaysApply(edited, device, apply) ==
    Task(edited.manufacturer # device.manufacturer, "writeManufacturerDesc")
    \o Task(edited.product # device.product, "writeProductDesc")
    \o Task(edited.usbParameters # device.usbParameters, "writeUSBParameters")
    \o Task(edited.chipSettings # device.chipSettings, "writeChipSettings")
    \o <<"verifyConfiguration">>
    \o Task(edited.chipSettings # device.chipSettings, "applyChipSettings")
    \o Task(edited.spiSettings # device.spiSettings, "applySPISettings")

\* QStringList ConfiguratorWindow::prepareTaskList(), as a function of
\* editedConfiguration_, deviceConfiguration_ and checkBoxApplyImmediately.
prepareTaskList(edited, device, apply) ==
    Task(edited.manufacturer # device.manufacturer, "writeManufacturerDesc")
    \o Task(edited.product # device.product, "writeProductDesc")
    \o Task(edited.usbParameters # device.usbParameters, "writeUSBParameters")
    \o Task(edited.chipSettings # device.chipSettings, "writeChipSettings")
    \o <<"verifyConfiguration">>
    \o (IF apply
        THEN Task(edited.chipSettings # device.chipSettings,
                  "applyChipSettings")
             \o Task(edited.spiSettings # device.spiSettings,
                     "applySPISettings")
        ELSE <<>>)

\* ------------------------------------------------------------- variables
VARIABLES
    \* the MCP2210 behind mcp2210_
    nvram,                  \* the configuration held in the NVRAM
    volatileChip,           \* the chip settings of the volatile area
    volatileSPI,            \* the SPI settings of the volatile area
    achievable,             \* the bit rates the clock divider can produce
    disconnected,           \* mcp2210_.disconnected()
    isOpen,                 \* mcp2210_.isOpen()
    faults,                 \* transient transport errors reported so far
    \* the members of ConfiguratorWindow
    deviceConfiguration_,
    editedConfiguration_,
    err_,
    errmsg_,
    viewEnabled_,
    checkBoxApplyImmediately,
    doubleSpinBoxBitRate,   \* the value of the bit rate field, in Hz
    \* the handler under way and its locals
    pc,                     \* "idle" between handlers, else the position
    ops,                    \* handlers invoked so far
    tasks,                  \* configureDevice: the task list
    i,                      \* configureDevice: the loop index
    bitrate,                \* getNearestCompatibleBitRate: the argument
    testBitrate,
    nearestGreaterOrEqualBitrate,
    nearestLesserOrEqualBitrate,
    errcnt,
    errstr,
    currentSPISettings,
    retval,
    \* what was observed of the handler under way
    executed,               \* the tasks invoked by this run, in order
    runCalls,               \* channel calls issued by this run
    runErrors,              \* channel calls of this run that reported an error
    lastTask,               \* the last task invoked and its channel calls
    preRun,                 \* deviceConfiguration_ and the NVRAM when the run began
    outcome,                \* how the last handler ended
    lastCall,               \* the last channel call of the bit rate search
    preSPI,                 \* the volatile SPI settings when the search began
    probed                  \* the rates a probe read back as written

deviceVars == <<nvram, volatileChip, volatileSPI, achievable, disconnected,
                isOpen, faults>>
windowVars == <<deviceConfiguration_, editedConfiguration_, err_, errmsg_,
                viewEnabled_, checkBoxApplyImmediately, doubleSpinBoxBitRate>>
runVars == <<tasks, i, executed, runCalls, runErrors, lastTask, preRun>>
searchVars == <<bitrate, testBitrate, nearestGreaterOrEqualBitrate,
                nearestLesserOrEqualBitrate, errcnt, errstr,
                currentSPISettings, retval, lastCall, preSPI, probed>>
vars == <<deviceVars, windowVars, runVars, searchVars, pc, ops, outcome>>

\* ----------------------------------------------------------- the channel
\* A channel call ends "ok", or reports an error: a transient transport
\* error ("error"), or the loss of the device ("gone"), after which every
\* call reports an error and disconnected() holds.
CallOutcomes == {"ok", "error", "gone"}

Range(f) == {f[x] : x \in DOMAIN f}
IsFailure(o) == o # "ok"

\* The outcomes n consecutive channel calls can have.
Calls(n) ==
    {os \in [1 .. n -> CallOutcomes] :
        /\ \A k \in 1 .. n :
              (disconnected \/ \E j \in 1 .. (k - 1) : os[j] = "gone")
                  => os[k] = "gone"
        /\ Cardinality({k \in 1 .. n : os[k] = "error"}) <= MaxFaults - faults}

\* errcnt and errstr (one line per error) as the calls leave them.
Errcnt(os) == Len(SelectSeq(os, IsFailure))
ErrorLine(o) == IF o = "gone" THEN "Device is gone." ELSE "Transfer failed."
Errstr(os) == [k \in 1 .. Errcnt(os) |-> ErrorLine(SelectSeq(os, IsFailure)[k])]

DisconnectedAfter(os) == disconnected \/ "gone" \in Range(os)
FaultsAfter(os) == faults + Cardinality({k \in DOMAIN os : os[k] = "error"})

\* What a get call returns: the device's value, or, when the call reports
\* an error, a value the sources at hand do not determine.
Got(o, actual, any) == IF o = "ok" THEN {actual} ELSE any

\* The chip rounds a bit rate down to the nearest rate its divider can
\* produce; below the lowest one it takes the lowest.
RoundDown(rates, x) ==
    IF \E a \in rates : a <= x
    THEN CHOOSE a \in rates : a <= x /\ \A b \in rates : b <= x => b <= a
    ELSE CHOOSE a \in rates : \A b \in rates : a <= b

\* The SPI settings the volatile area holds after configureSPISettings.
Stored(settings) ==
    [settings EXCEPT !.bitrate = RoundDown(achievable, settings.bitrate)]

\* What the get calls return when they report an error: the sources at
\* hand do not determine it; here, the value decoded from an empty
\* response, or the value the call would have returned.
FailedSPISettings(actual) == {SPISettings(0, 0), actual}
FailedManufacturerDescs(actual) == {"", actual}
FailedProductDescs(actual) == {"", actual}
FailedUSBParameters(actual) == {USBParameters(0, 0, 0, 0, FALSE), actual}
FailedChipSettings(actual) ==
    {ChipSettings(<<0, 0, 0, 0, 0, 0, 0, 0, 0>>, 0, 0, FALSE, 0, FALSE),
     actual}

\* The rates of a divider of BITRATE_MAX: BITRATE_MAX \div n, down to
\* BITRATE_MIN.
DividerRates ==
    {r \in BITRATE_MIN .. BITRATE_MAX :
        \E n \in 1 .. BITRATE_MAX : r = BITRATE_MAX \div n}

\* The sets of achievable rates: the limits and any rates between them.
AchievableSets ==
    {s \cup {BITRATE_MIN, BITRATE_MAX} :
        s \in SUBSET ((BITRATE_MIN + 1) .. (BITRATE_MAX - 1))}

\* ----------------------------------------------------- validateOperation
DisconnectedMessage ==
    <<"Device disconnected.\n\nPlease reconnect it and try again.">>
FailedVerification == <<"Failed verification.">>
\* "Failed to %1. The operation returned the following error(s):" and the
\* lines of errstr, each after a dash.
FailedMessage(operation, n, lines) == <<"Failed to", operation, n, lines>>

\* A slip that reports success whatever errcnt is.
validateOperation_Never(operation, n, lines, gone, err, errmsg) ==
    [err_ |-> err, errmsg_ |-> errmsg]

\* A slip that ignores mcp2210_.disconnected().
validateOperation_NoDisconnect(operation, n, lines, gone, err, errmsg) ==
    IF n > 0
    THEN [err_ |-> TRUE, errmsg_ |-> FailedMessage(operation, n, lines)]
    ELSE [err_ |-> err, errmsg_ |-> errmsg]

\* void ConfiguratorWindow::validateOperation(operation, errcnt, errstr):
\* the values of err_ and errmsg_ it leaves.
validateOperation(operation, n, lines, gone, err, errmsg) ==
    IF n > 0
    THEN [err_ |-> TRUE,
          errmsg_ |-> IF gone THEN DisconnectedMessage
                      ELSE FailedMessage(operation, n, lines)]
    ELSE [err_ |-> err, errmsg_ |-> errmsg]

\* void ConfiguratorWindow::handleError(): the view is disabled and the
\* device closed when the device is disconnected or not open.
handleError(gone) ==
    /\ viewEnabled_' = (viewEnabled_ /\ ~(gone \/ ~isOpen))
    /\ isOpen' = (isOpen /\ ~(gone \/ ~isOpen))

\* ------------------------------------------------ the tasks of a run
NoTask == [name |-> "none", calls |-> 0, validations |-> 0, errors |-> 0]

\* What is kept of the state in which a run began, before any run.
NoPreRun == [device |-> DefaultConfiguration, nvram |-> DefaultConfiguration]

\* The locals and observations of the search, before any search.
NoSearch ==
    /\ bitrate' = 0
    /\ testBitrate' = 0
    /\ nearestGreaterOrEqualBitrate' = BITRATE_MAX
    /\ nearestLesserOrEqualBitrate' = BITRATE_MIN
    /\ errcnt' = 0
    /\ errstr' = <<>>
    /\ currentSPISettings' = SPISettings(0, 0)
    /\ retval' = 0
    /\ lastCall' = "none"
    /\ preSPI' = SPISettings(0, 0)
    /\ probed' = {}

\* The locals and observations of the configuration run, before any run.
NoRun ==
    /\ tasks' = <<>>
    /\ i' = 0
    /\ executed' = <<>>
    /\ runCalls' = 0
    /\ runErrors' = 0
    /\ lastTask' = NoTask
    /\ preRun' = NoPreRun

\* What a task leaves alone whatever it is.
TaskFrame ==
    UNCHANGED <<achievable, isOpen, editedConfiguration_, viewEnabled_,
                checkBoxApplyImmediately, tasks, preRun, searchVars, ops,
                outcome>>

\* The channel call of a task that issues one, and its validation.
OneCall(name, operation, os) ==
    LET v == validateOperation(operation, Errcnt(os), Errstr(os),
                               DisconnectedAfter(os), err_, errmsg_)
    IN  /\ disconnected' = DisconnectedAfter(os)
        /\ faults' = FaultsAfter(os)
        /\ err_' = v.err_
        /\ errmsg_' = v.errmsg_
        /\ lastTask' = [name |-> name, calls |-> Len(os), validations |-> 1,
                        errors |-> Errcnt(os)]
        /\ runCalls' = runCalls + Len(os)
        /\ runErrors' = runErrors + Errcnt(os)

\* A slip that writes back the descriptor of deviceConfiguration_.
writeManufacturerDesc_FromDevice ==
    \E os \in Calls(1) :
        /\ OneCall("writeManufacturerDesc", "write manufacturer desc", os)
        /\ nvram' = IF os[1] = "ok"
                    THEN [nvram EXCEPT !.manufacturer =
                              deviceConfiguration_.manufacturer]
                    ELSE nvram
        /\ UNCHANGED <<volatileChip, volatileSPI, deviceConfiguration_,
                       doubleSpinBoxBitRate>>

\* void ConfiguratorWindow::writeManufacturerDesc()
writeManufacturerDesc ==
    \E os \in Calls(1) :
        /\ OneCall("writeManufacturerDesc", "write manufacturer desc", os)
        /\ nvram' = IF os[1] = "ok"
                    THEN [nvram EXCEPT !.manufacturer =
                              editedConfiguration_.manufacturer]
                    ELSE nvram
        /\ UNCHANGED <<volatileChip, volatileSPI, deviceConfiguration_,
                       doubleSpinBoxBitRate>>

\* A slip that takes the written descriptor over into deviceConfiguration_.
writeProductDesc_UpdatesDevice ==
    \E os \in Calls(1) :
        /\ OneCall("writeProductDesc", "write product desc", os)
        /\ nvram' = IF os[1] = "ok"
                    THEN [nvram EXCEPT !.product =
                              editedConfiguration_.product]
                    ELSE nvram
        /\ deviceConfiguration_' =
               IF os[1] = "ok"
               THEN [deviceConfiguration_ EXCEPT !.product =
                         editedConfiguration_.product]
               ELSE deviceConfiguration_
        /\ UNCHANGED <<volatileChip, volatileSPI, doubleSpinBoxBitRate>>

\* void ConfiguratorWindow::writeProductDesc()
writeProductDesc ==
    \E os \in Calls(1) :
        /\ OneCall("writeProductDesc", "write product desc", os)
        /\ nvram' = IF os[1] = "ok"
                    THEN [nvram EXCEPT !.product =
                              editedConfiguration_.product]
                    ELSE nvram
        /\ UNCHANGED <<volatileChip, volatileSPI, deviceConfiguration_,
                       doubleSpinBoxBitRate>>

\* void ConfiguratorWindow::writeUSBParameters()
writeUSBParameters ==
    \E os \in Calls(1) :
        /\ OneCall("writeUSBParameters", "write USB parameters", os)
        /\ nvram' = IF os[1] = "ok"
                    THEN [nvram EXCEPT !.usbParameters =
                              editedConfiguration_.usbParameters]
                    ELSE nvram
        /\ UNCHANGED <<volatileChip, volatileSPI, deviceConfiguration_,
                       doubleSpinBoxBitRate>>

\* void ConfiguratorWindow::writeChipSettings()
writeChipSettings ==
    \E os \in Calls(1) :
        /\ OneCall("writeChipSettings", "write chip settings", os)
        /\ nvram' = IF os[1] = "ok"
                    THEN [nvram EXCEPT !.chipSettings =
                              editedConfiguration_.chipSettings]
                    ELSE nvram
        /\ UNCHANGED <<volatileChip, volatileSPI, deviceConfiguration_,
                       doubleSpinBoxBitRate>>

\* A slip that sends the chip settings twice.
applyChipSettings_Twice ==
    \E os \in Calls(2) :
        /\ OneCall("applyChipSettings", "apply chip settings", os)
        /\ volatileChip' = IF "ok" \in Range(os)
                           THEN editedConfiguration_.chipSettings
                           ELSE volatileChip
        /\ UNCHANGED <<nvram, volatileSPI, deviceConfiguration_,
                       doubleSpinBoxBitRate>>

\* void ConfiguratorWindow::applyChipSettings()
applyChipSettings ==
    \E os \in Calls(1) :
        /\ OneCall("applyChipSettings", "apply chip settings", os)
        /\ volatileChip' = IF os[1] = "ok"
                           THEN editedConfiguration_.chipSettings
                           ELSE volatileChip
        /\ UNCHANGED <<nvram, volatileSPI, deviceConfiguration_,
                       doubleSpinBoxBitRate>>

\* void ConfiguratorWindow::applySPISettings()
applySPISettings ==
    \E os \in Calls(1) :
        /\ OneCall("applySPISettings", "apply SPI settings", os)
        /\ volatileSPI' = IF os[1] = "ok"
                          THEN Stored(editedConfiguration_.spiSettings)
                          ELSE volatileSPI
        /\ UNCHANGED <<nvram, volatileChip, deviceConfiguration_,
                       doubleSpinBoxBitRate>>

\* The configurations the six get calls of readDeviceConfiguration can
\* assign to deviceConfiguration_ (the sixth reads the access mode).
ReadBack(os) ==
    [manufacturer : Got(os[1], nvram.manufacturer,
                        FailedManufacturerDescs(nvram.manufacturer)),
     product : Got(os[2], nvram.product, FailedProductDescs(nvram.product)),
     usbParameters : Got(os[3], nvram.usbParameters,
                         FailedUSBParameters(nvram.usbParameters)),
     chipSettings : Got(os[4], nvram.chipSettings,
                        FailedChipSettings(nvram.chipSettings)),
     spiSettings : Got(os[5], nvram.spiSettings,
                       FailedSPISettings(nvram.spiSettings))]

\* void ConfiguratorWindow::readDeviceConfiguration(): what it leaves in
\* deviceConfiguration_, err_ and errmsg_ when its calls end as os and
\* return read.
readDeviceConfiguration(os, read) ==
    LET v == validateOperation("read device configuration", Errcnt(os),
                               Errstr(os), DisconnectedAfter(os), err_,
                               errmsg_)
    IN  [deviceConfiguration_ |-> read, err_ |-> v.err_,
         errmsg_ |-> v.errmsg_]

\* A slip that compares nothing after the read.
verifyCheck_Skip(r, edited) == [err_ |-> r.err_, errmsg_ |-> r.errmsg_]

\* A slip that compares even when the read failed.
verifyCheck_Always(r, edited) ==
    IF r.deviceConfiguration_ # edited
    THEN [err_ |-> TRUE, errmsg_ |-> FailedVerification]
    ELSE [err_ |-> r.err_, errmsg_ |-> r.errmsg_]

\* The comparison of verifyConfiguration, after the read left r.
verifyCheck(r, edited) ==
    IF ~r.err_ /\ r.deviceConfiguration_ # edited
    THEN [err_ |-> TRUE, errmsg_ |-> FailedVerification]
    ELSE [err_ |-> r.err_, errmsg_ |-> r.errmsg_]

\* void ConfiguratorWindow::verifyConfiguration()
verifyConfiguration ==
    \E os \in Calls(6) :
    \E read \in ReadBack(os) :
        LET r == readDeviceConfiguration(os, read)
            v == verifyCheck(r, editedConfiguration_)
        IN  /\ deviceConfiguration_' = r.deviceConfiguration_
            /\ err_' = v.err_
            /\ errmsg_' = v.errmsg_
            \* displayConfiguration(deviceConfiguration_) shows the bit rate
            /\ doubleSpinBoxBitRate' =
                   IF ~r.err_ THEN r.deviceConfiguration_.spiSettings.bitrate
                   ELSE doubleSpinBoxBitRate
            /\ disconnected' = DisconnectedAfter(os)
            /\ faults' = FaultsAfter(os)
            /\ lastTask' = [name |-> "verifyConfiguration",
                            calls |-> Len(os), validations |-> 1,
                            errors |-> Errcnt(os)]
            /\ runCalls' = runCalls + Len(os)
            /\ runErrors' = runErrors + Errcnt(os)
            /\ UNCHANGED <<nvram, volatileChip, volatileSPI>>

\* QMetaObject::invokeMethod(this, name)
invokeMethod(name) ==
    CASE name = "writeManufacturerDesc" -> writeManufacturerDesc
      [] name = "writeProductDesc" -> writeProductDesc
      [] name = "writeUSBParameters" -> writeUSBParameters
      [] name = "writeChipSettings" -> writeChipSettings
      [] name = "verifyConfiguration" -> verifyConfiguration
      [] name = "applyChipSettings" -> applyChipSettings
      [] name = "applySPISettings" -> applySPISettings

\* ------------------------------------------------------- configureDevice
\* A slip that goes on with the list after a task failed.
AfterTask_NoBreak(err, idx, n) ==
    IF idx + 1 < n THEN "configure" ELSE "configure_end"

\* The loop of configureDevice after the task at idx: break when err_ is
\* set, else ++i and the test i < nTasks.
AfterTask(err, idx, n) ==
    IF err THEN "configure_end"
    ELSE IF idx + 1 < n THEN "configure" ELSE "configure_end"

\* A slip that runs the list from its end.
TaskAt_Reversed(list, idx) == list[Len(list) - idx]

\* tasks[i]
TaskAt(list, idx) == list[idx + 1]

\* getEditedConfiguration(): the fields of the window, and the SPI settings
\* of deviceConfiguration_.
getEditedConfiguration(ui, device) ==
    [ui EXCEPT !.spiSettings = device.spiSettings]

\* on_pushButtonWrite_clicked(), up to the first task of configureDevice.
on_pushButtonWrite_clicked(inputs) ==
    /\ pc = "idle" /\ viewEnabled_ /\ ops < MaxOps
    /\ isOpen
    /\ \E ui \in inputs, apply \in BOOLEAN, yes \in BOOLEAN :
        LET edited == getEditedConfiguration(ui, deviceConfiguration_)
            list == prepareTaskList(edited, deviceConfiguration_, apply)
        IN  /\ editedConfiguration_' = edited
            /\ checkBoxApplyImmediately' = apply
            /\ outcome' = "none"
            /\ IF edited # deviceConfiguration_ /\ yes
               THEN /\ err_' = FALSE
                    /\ tasks' = list
                    /\ i' = 0
                    /\ executed' = <<>>
                    /\ runCalls' = 0
                    /\ runErrors' = 0
                    /\ lastTask' = NoTask
                    /\ preRun' = [device |-> deviceConfiguration_,
                                  nvram |-> nvram]
                    /\ pc' = IF 0 < Len(list) THEN "configure"
                             ELSE "configure_end"
               ELSE NoRun /\ UNCHANGED <<err_, pc>>
    /\ ops' = ops + 1
    /\ NoSearch
    /\ UNCHANGED <<deviceVars, deviceConfiguration_, errmsg_, viewEnabled_,
                   doubleSpinBoxBitRate>>

\* One turn of the loop of configureDevice: the task at i and the test
\* of err_ after it.
configureDevice_task ==
    /\ pc = "configure"
    /\ invokeMethod(TaskAt(tasks, i))
    /\ executed' = Append(executed, TaskAt(tasks, i))
    /\ pc' = AfterTask(err_', i, Len(tasks))
    /\ i' = IF pc' = "configure" THEN i + 1 ELSE i
    /\ TaskFrame

\* The end of configureDevice: the error or the success message.
configureDevice_end ==
    /\ pc = "configure_end"
    /\ IF err_
       THEN handleError(disconnected) /\ outcome' = "not completed"
       ELSE outcome' = "configured" /\ UNCHANGED <<viewEnabled_, isOpen>>
    /\ pc' = "idle"
    /\ UNCHANGED <<nvram, volatileChip, volatileSPI, achievable,
                   disconnected, faults, deviceConfiguration_,
                   editedConfiguration_, err_, errmsg_,
                   checkBoxApplyImmediately, doubleSpinBoxBitRate, runVars,
                   searchVars, ops>>

\* ------------------------------------------ getNearestCompatibleBitRate
\* The bit rates a get call that reports an error may return.
FailedBitrates(actual) == {0, actual}

\* A slip that goes on probing after a transport error.
LoopCondition_Always(n) == TRUE

\* while (errcnt == 0)
LoopCondition(n) == n = 0

\* A slip that prefers the greater rate on a tie.
NearestOf_TieUp(requested, ge, le) ==
    IF UInt(ge - requested) <= UInt(requested - le) THEN ge ELSE le

\* The choice between the two candidates, in quint32 arithmetic.
NearestOf(requested, ge, le) ==
    IF UInt(ge - requested) < UInt(requested - le) THEN ge ELSE le

\* A slip that starts the search at the requested rate.
FirstTestBitrate_Same(requested) == requested

\* quint32 testBitrate = 4 * bitrate
FirstTestBitrate(requested) == UInt(4 * requested)

\* A slip that builds the test settings anew instead of from the snapshot.
TestSPISettings_Blank(current, rate) == SPISettings(rate, 0)

\* testSPISettings: a copy of currentSPISettings whose bitrate is set to the
\* test rate before each write.
TestSPISettings(current, rate) == [current EXCEPT !.bitrate = rate]

\* on_doubleSpinBoxBitRate_editingFinished() calls
\* getNearestCompatibleBitRate(bitrate): the locals and the snapshot of the
\* volatile SPI settings, up to the loop.
getNearestCompatibleBitRate_begin(requests) ==
    /\ pc = "idle" /\ viewEnabled_ /\ ops < MaxOps
    /\ \E value \in requests, os \in Calls(1) :
       \E got \in Got(os[1], volatileSPI, FailedSPISettings(volatileSPI)) :
        /\ bitrate' = value
        /\ errcnt' = Errcnt(os)
        /\ errstr' = Errstr(os)
        /\ currentSPISettings' = got
        /\ testBitrate' = FirstTestBitrate(value)
        /\ nearestGreaterOrEqualBitrate' = BITRATE_MAX
        /\ nearestLesserOrEqualBitrate' = BITRATE_MIN
        /\ disconnected' = DisconnectedAfter(os)
        /\ faults' = FaultsAfter(os)
        /\ preSPI' = volatileSPI
        /\ probed' = {}
        /\ lastCall' = "snapshot"
    /\ pc' = "search"
    /\ ops' = ops + 1
    /\ outcome' = "none"
    /\ retval' = 0
    /\ NoRun
    /\ UNCHANGED <<nvram, volatileChip, volatileSPI, achievable, isOpen,
                   windowVars>>

\* One turn of the loop: the test rate is written and read back.
getNearestCompatibleBitRate_probe ==
    /\ pc = "search" /\ LoopCondition(errcnt)
    /\ \E os \in Calls(2) :
        LET testSPISettings ==
                TestSPISettings(currentSPISettings, testBitrate)
            held == IF os[1] = "ok" THEN Stored(testSPISettings)
                    ELSE volatileSPI
        IN  \E returnedBitrate \in Got(os[2], held.bitrate,
                                       FailedBitrates(held.bitrate)) :
            /\ volatileSPI' = held
            /\ errcnt' = errcnt + Errcnt(os)
            /\ errstr' = errstr \o Errstr(os)
            /\ disconnected' = DisconnectedAfter(os)
            /\ faults' = FaultsAfter(os)
            /\ IF returnedBitrate = testBitrate
               THEN /\ nearestGreaterOrEqualBitrate' =
                           IF testBitrate >= bitrate THEN testBitrate
                           ELSE nearestGreaterOrEqualBitrate
                    /\ nearestLesserOrEqualBitrate' =
                           IF testBitrate <= bitrate THEN testBitrate
                           ELSE nearestLesserOrEqualBitrate
                    /\ testBitrate' =
                           IF testBitrate <= bitrate THEN testBitrate
                           ELSE UInt(testBitrate - 1)
                    /\ pc' = IF testBitrate <= bitrate THEN "restore"
                             ELSE "search"
               ELSE /\ testBitrate' = returnedBitrate
                    /\ pc' = "search"
                    /\ UNCHANGED <<nearestGreaterOrEqualBitrate,
                                   nearestLesserOrEqualBitrate>>
            /\ probed' = IF returnedBitrate = testBitrate /\ Errcnt(os) = 0
                         THEN probed \cup {testBitrate} ELSE probed
            /\ lastCall' = "probe"
    /\ UNCHANGED <<nvram, volatileChip, achievable, isOpen, windowVars,
                   runVars, bitrate, currentSPISettings, retval, preSPI, ops,
                   outcome>>

\* After the loop: the snapshot is written back, the calls are validated
\* and the nearer candidate returned; the handler then shows the error or
\* puts the rate into the field.
getNearestCompatibleBitRate_end ==
    /\ pc = "restore" \/ (pc = "search" /\ ~LoopCondition(errcnt))
    /\ \E os \in Calls(1) :
        LET n == errcnt + Errcnt(os)
            lines == errstr \o Errstr(os)
            v == validateOperation("get bit rate", n, lines,
                                   DisconnectedAfter(os), err_, errmsg_)
            r == NearestOf(bitrate, nearestGreaterOrEqualBitrate,
                           nearestLesserOrEqualBitrate)
        IN  /\ volatileSPI' = IF os[1] = "ok" THEN Stored(currentSPISettings)
                              ELSE volatileSPI
            /\ errcnt' = n
            /\ errstr' = lines
            /\ disconnected' = DisconnectedAfter(os)
            /\ faults' = FaultsAfter(os)
            /\ err_' = v.err_
            /\ errmsg_' = v.errmsg_
            /\ retval' = r
            /\ IF v.err_
               THEN /\ handleError(DisconnectedAfter(os))
                    /\ outcome' = "error shown"
                    /\ UNCHANGED doubleSpinBoxBitRate
               ELSE /\ doubleSpinBoxBitRate' = r
                    /\ outcome' = "rate set"
                    /\ UNCHANGED <<viewEnabled_, isOpen>>
    /\ lastCall' = "restore"
    /\ pc' = "idle"
    /\ UNCHANGED <<nvram, volatileChip, achievable, deviceConfiguration_,
                   editedConfiguration_, checkBoxApplyImmediately, runVars,
                   bitrate, testBitrate, nearestGreaterOrEqualBitrate,
                   nearestLesserOrEqualBitrate, currentSPISettings, preSPI,
                   probed, ops>>

\* ---------------------------------------------------- the specifications
\* A device in full access mode, connected and open.
InitDevice(config, rates, spi) ==
    /\ nvram = config
    /\ volatileChip = config.chipSettings
    /\ volatileSPI = spi
    /\ achievable = rates
    /\ disconnected = FALSE
    /\ isOpen = TRUE
    /\ faults = 0

\* The members of the window after openDevice() and displayConfiguration().
InitWindow(device, edited, apply) ==
    /\ deviceConfiguration_ = device
    /\ editedConfiguration_ = edited
    /\ err_ = FALSE
    /\ errmsg_ = <<>>
    /\ viewEnabled_ = TRUE
    /\ checkBoxApplyImmediately = apply
    /\ doubleSpinBoxBitRate = device.spiSettings.bitrate

\* No handler is under way and none has run.
InitHandlers ==
    /\ pc = "idle"
    /\ ops = 0
    /\ tasks = <<>>
    /\ i = 0
    /\ bitrate = 0
    /\ testBitrate = 0
    /\ nearestGreaterOrEqualBitrate = BITRATE_MAX
    /\ nearestLesserOrEqualBitrate = BITRATE_MIN
    /\ errcnt = 0
    /\ errstr = <<>>
    /\ currentSPISettings = SPISettings(0, 0)
    /\ retval = 0
    /\ executed = <<>>
    /\ runCalls = 0
    /\ runErrors = 0
    /\ lastTask = NoTask
    /\ preRun = NoPreRun
    /\ outcome = "none"
    /\ lastCall = "none"
    /\ preSPI = SPISettings(0, 0)
    /\ probed = {}

\* The window after openDevice() read the configuration of a device.
Init ==
    /\ InitDevice(DefaultConfiguration, DividerRates,
                  DefaultConfiguration.spiSettings)
    /\ InitWindow(DefaultConfiguration, DefaultConfiguration, FALSE)
    /\ InitHandlers

\* The rates the session types into the bit rate field.
SessionRequests == BITRATE_MIN .. BITRATE_MAX

\* The configurations the session enters into the fields of the window:
\* no change, one field changed, two fields changed, every field changed.
SessionInputs ==
    {DefaultConfiguration,
     [DefaultConfiguration EXCEPT !.product = "Bridge"],
     [DefaultConfiguration EXCEPT
         !.usbParameters = USBParameters(1240, 222, 60, 0, FALSE)],
     [DefaultConfiguration EXCEPT
         !.manufacturer = "Acme",
         !.chipSettings =
             ChipSettings(<<1, 0, 0, 0, 0, 0, 0, 0, 0>>, 255, 0, FALSE, 0,
                          TRUE)],
     [manufacturer |-> "Acme", product |-> "Bridge",
      usbParameters |-> USBParameters(1240, 222, 60, 0, FALSE),
      chipSettings |->
          ChipSettings(<<1, 0, 0, 0, 0, 0, 0, 0, 0>>, 255, 0, FALSE, 0, TRUE),
      spiSettings |-> SPISettings(BITRATE_MAX, 0)]}

Next ==
    \/ on_pushButtonWrite_clicked(SessionInputs)
    \/ configureDevice_task
    \/ configureDevice_end
    \/ getNearestCompatibleBitRate_begin(SessionRequests)
    \/ getNearestCompatibleBitRate_probe
    \/ getNearestCompatibleBitRate_end

Spec == Init /\ [][Next]_vars

\* prepareTaskList() alone, on every pair of configurations and either
\* state of the check box.
InitTL ==
    /\ InitDevice(DefaultConfiguration, DividerRates,
                  DefaultConfiguration.spiSettings)
    /\ \E device \in Configurations, edited \in Configurations,
          apply \in BOOLEAN : InitWindow(device, edited, apply)
    /\ InitHandlers

prepareTaskList_call ==
    /\ pc = "idle"
    /\ tasks' = prepareTaskList(editedConfiguration_, deviceConfiguration_,
                                checkBoxApplyImmediately)
    /\ pc' = "prepared"
    /\ UNCHANGED <<deviceVars, windowVars, searchVars, i, executed, runCalls,
                   runErrors, lastTask, preRun, ops, outcome>>

NextTL == prepareTaskList_call

SpecTL == InitTL /\ [][NextTL]_vars

\* One call of getNearestCompatibleBitRate(), on every request, every set
\* of achievable rates and the volatile SPI settings a device can hold.
InitBR ==
    /\ \E rates \in AchievableSets :
       \E rate \in rates, mode \in {0, 3} :
           InitDevice(DefaultConfiguration, rates, SPISettings(rate, mode))
    /\ InitWindow(DefaultConfiguration, DefaultConfiguration, FALSE)
    /\ InitHandlers

NextBR ==
    \/ ops = 0 /\ getNearestCompatibleBitRate_begin(Bitrates)
    \/ getNearestCompatibleBitRate_probe
    \/ getNearestCompatibleBitRate_end

SpecBR == InitBR /\ [][NextBR]_vars

\* The same call, which, once entered, goes on until it returns: the loop
\* and the statements after it are sequential code of one handler.
SpecBRLive == SpecBR /\ WF_vars(NextBR)

\* ------------------------------------------------------------ the claims
Differs(field) == editedConfiguration_[field] # deviceConfiguration_[field]
Listed(name) == name \in Range(tasks)

\* C1: the task list holds writeManufacturerDesc, writeProductDesc,
\* writeUSBParameters, writeChipSettings exactly when the manufacturer, the
\* product, the USB parameters, the chip settings of the edited and the
\* device configuration differ; when only the product differs and "apply
\* immediately" is off, the list is writeProductDesc, verifyConfiguration.
OnlyProductDiffers ==
    /\ Differs("product")
    /\ ~Differs("manufacturer") /\ ~Differs("usbParameters")
    /\ ~Differs("chipSettings") /\ ~Differs("spiSettings")
C1_WriteTasksIffDiffer ==
    pc = "prepared" =>
        /\ Listed("writeManufacturerDesc") <=> Differs("manufacturer")
        /\ Listed("writeProductDesc") <=> Differs("product")
        /\ Listed("writeUSBParameters") <=> Differs("usbParameters")
        /\ Listed("writeChipSettings") <=> Differs("chipSettings")
        /\ (OnlyProductDiffers /\ ~checkBoxApplyImmediately)
               => tasks = <<"writeProductDesc", "verifyConfiguration">>
C1_Witness ==
    /\ pc = "prepared" /\ OnlyProductDiffers /\ ~checkBoxApplyImmediately
    /\ tasks = <<"writeProductDesc", "verifyConfiguration">>

\* C2: every task list holds verifyConfiguration exactly once, the NVRAM
\* writes before it in the order manufacturer, product, USB parameters,
\* chip settings, the apply tasks after it (chip, then SPI), and no task
\* twice.
TaskOrder ==
    <<"writeManufacturerDesc", "writeProductDesc", "writeUSBParameters",
      "writeChipSettings", "verifyConfiguration", "applyChipSettings",
      "applySPISettings">>
Rank(name) == CHOOSE k \in 1 .. Len(TaskOrder) : TaskOrder[k] = name
C2_TaskListOrder ==
    pc = "prepared" =>
        /\ Cardinality({k \in 1 .. Len(tasks) :
                           tasks[k] = "verifyConfiguration"}) = 1
        /\ \A k \in 1 .. Len(tasks) : tasks[k] \in Range(TaskOrder)
        /\ \A j, k \in 1 .. Len(tasks) :
               j < k => Rank(tasks[j]) < Rank(tasks[k])
C2_Witness == pc = "prepared" /\ tasks = TaskOrder

\* C3: the task list holds applyChipSettings exactly when "apply
\* immediately" is set and the chip settings differ, applySPISettings
\* exactly when it is set and the SPI settings differ; when no field
\* differs the list is verifyConfiguration alone, whatever the check box.
C3_ApplyTasksIffChecked ==
    pc = "prepared" =>
        /\ Listed("applyChipSettings")
               <=> (checkBoxApplyImmediately /\ Differs("chipSettings"))
        /\ Listed("applySPISettings")
               <=> (checkBoxApplyImmediately /\ Differs("spiSettings"))
        /\ editedConfiguration_ = deviceConfiguration_
               => tasks = <<"verifyConfiguration">>
C3_Witness ==
    /\ pc = "prepared" /\ checkBoxApplyImmediately
    /\ ~Differs("chipSettings") /\ Differs("spiSettings")
    /\ tasks = <<"verifyConfiguration", "applySPISettings">>

\* C4: configureDevice invokes the tasks of its list in list order, and
\* once a task has reported failure the run invokes no later task and
\* issues no further channel call.
RunUnderWay == pc \in {"configure", "configure_end"}
C4_InListOrder ==
    /\ Len(executed) <= Len(tasks)
    /\ \A k \in 1 .. Len(executed) : executed[k] = tasks[k]
C4_NothingAfterFailure ==
    (RunUnderWay /\ err_) =>
        /\ executed' = executed
        /\ runCalls' = runCalls
        /\ nvram' = nvram
        /\ volatileChip' = volatileChip
        /\ volatileSPI' = volatileSPI
C4_OrderAndStop == []C4_InListOrder /\ [][C4_NothingAfterFailure]_vars
C4_Witness ==
    /\ pc = "configure_end" /\ err_
    /\ Len(executed) >= 2 /\ Len(executed) < Len(tasks)
    /\ executed = SubSeq(tasks, 1, Len(executed))

\* C5: a run reports success only if every task of its list was invoked
\* and no channel call of the run reported an error and the configuration
\* read back by the verification equals the edited one.
C5_SuccessOnlyIfAllClean ==
    outcome = "configured" =>
        /\ executed = tasks
        /\ Listed("verifyConfiguration")
        /\ runErrors = 0
        /\ ~err_
        /\ deviceConfiguration_ = editedConfiguration_
C5_Witness ==
    /\ outcome = "configured" /\ Len(tasks) >= 3 /\ executed = tasks
    /\ runCalls = Len(tasks) + 5

\* C6: when the read of the verification reports no error and the
\* configuration read differs from the edited one, the run fails with
\* "Failed verification."; when the read reports an error, the message is
\* that of the failed read or of the disconnection, never "Failed
\* verification.".
VerifiedLast == lastTask.name = "verifyConfiguration"
C6_VerificationMessage ==
    /\ (VerifiedLast /\ lastTask.errors = 0
            /\ deviceConfiguration_ # editedConfiguration_)
           => /\ err_ /\ errmsg_ = FailedVerification
              /\ pc # "configure" /\ outcome # "configured"
    /\ (VerifiedLast /\ lastTask.errors > 0)
           => /\ err_ /\ errmsg_ # FailedVerification
              /\ pc # "configure" /\ outcome # "configured"
              /\ \/ errmsg_ = DisconnectedMessage /\ disconnected
                 \/ /\ ~disconnected
                    /\ Len(errmsg_) = 4
                    /\ errmsg_[1] = "Failed to"
                    /\ errmsg_[2] = "read device configuration"
                    /\ errmsg_[3] = lastTask.errors
C6_Witness ==
    /\ VerifiedLast /\ lastTask.errors = 0 /\ runErrors = 0
    /\ deviceConfiguration_ # editedConfiguration_
    /\ outcome = "not completed" /\ errmsg_ = FailedVerification

\* getNearestCompatibleBitRate() has returned to the handler.
Returned == pc = "idle" /\ outcome \in {"rate set", "error shown"}
Dist(a, b) == IF a >= b THEN a - b ELSE b - a

\* C7: after getNearestCompatibleBitRate() returns, with or without a
\* transport error, the volatile SPI settings of the device equal, field
\* by field, those it held before the call.
C7_VolatileSPIRestored == Returned => volatileSPI = preSPI

\* C8: on a return without error, against a device that rounds a written
\* rate down to an achievable one, the result was read back as written by
\* a probe of the call, no achievable rate is strictly nearer to the
\* request, and an achievable request is returned as it is.
C8_NearestAchievable ==
    (Returned /\ errcnt = 0) =>
        /\ retval \in probed
        /\ \A a \in achievable : Dist(a, bitrate) >= Dist(retval, bitrate)
        /\ bitrate \in achievable => retval = bitrate

\* C9, as claimed: whenever getNearestCompatibleBitRate() returns, it
\* returns nearestGreaterOrEqualBitrate only when that is strictly nearer
\* to the request than nearestLesserOrEqualBitrate, and
\* nearestLesserOrEqualBitrate when the two are equally near.
GreaterOnlyIfNearer ==
    /\ retval # nearestLesserOrEqualBitrate
           => Dist(nearestGreaterOrEqualBitrate, bitrate)
                  < Dist(nearestLesserOrEqualBitrate, bitrate)
    /\ Dist(nearestGreaterOrEqualBitrate, bitrate)
               = Dist(nearestLesserOrEqualBitrate, bitrate)
           => retval = nearestLesserOrEqualBitrate
ProbeFailed == pc = "search" /\ lastCall = "probe" /\ errcnt > 0
C10_AbortAfterProbeError ==
    ProbeFailed =>
        /\ lastCall' = "restore"
        /\ pc' = "idle"
        /\ testBitrate' = testBitrate
        /\ err_'
        /\ outcome' = "error shown"
        /\ doubleSpinBoxBitRate' = doubleSpinBoxBitRate
C10_ProbeErrorAborts == [][C10_AbortAfterProbeError]_vars
C10_Witness == ProbeFailed /\ probed # {} /\ ~disconnected

\* C11: every call of validateOperation with errcnt == 0 yields success:
\* the caller that reads err_ after it reads false. In a task of a run the
\* flag may then only be set by the comparison of verifyConfiguration; at
\* the end of a bit rate search without error the handler reads false.
C11_CleanStep ==
    /\ (pc = "configure" /\ lastTask'.errors = 0 /\ err_')
           => /\ lastTask'.name = "verifyConfiguration"
              /\ errmsg_' = FailedVerification
    /\ (pc \in {"search", "restore"} /\ pc' = "idle" /\ errcnt' = 0)
           => ~err_'
C11_CleanValidationSucceeds == [][C11_CleanStep]_vars

\* The operation name each task hands to validateOperation.
OperationOf(name) ==
    CASE name = "writeManufacturerDesc" -> "write manufacturer desc"
      [] name = "writeProductDesc" -> "write product desc"
      [] name = "writeUSBParameters" -> "write USB parameters"
      [] name = "writeChipSettings" -> "write chip settings"
      [] name = "verifyConfiguration" -> "read device configuration"
      [] name = "applyChipSettings" -> "apply chip settings"
      [] name = "applySPISettings" -> "apply SPI settings"
      [] OTHER -> "none"

\* The last task of the run reported a transport error and was validated.
TaskErrorValidated ==
    pc \in {"configure_end", "idle"} /\ lastTask.errors > 0

\* C12: after validateOperation was called with errcnt > 0, err_ is set; the
\* message is the fixed "Device disconnected. Please reconnect it and try
\* again." when the device is disconnected, whatever the operation and
\* errstr, and the message built from the operation name, the count and
\* the lines of errstr exactly when the device is not disconnected.
C12_DisconnectedMessage ==
    /\ TaskErrorValidated =>
           /\ err_
           /\ disconnected => errmsg_ = DisconnectedMessage
           /\ ~disconnected =>
                  /\ Len(errmsg_) = 4
                  /\ errmsg_[1] = "Failed to"
                  /\ errmsg_[2] = OperationOf(lastTask.name)
                  /\ errmsg_[3] = lastTask.errors
    /\ (Returned /\ errcnt > 0) =>
           /\ err_
           /\ errmsg_ = IF disconnected THEN DisconnectedMessage
                        ELSE FailedMessage("get bit rate", errcnt, errstr)
C12_Witness ==
    /\ outcome = "not completed" /\ lastTask.errors > 0
    /\ disconnected /\ errmsg_ = DisconnectedMessage
    /\ lastTask.name \in {"writeProductDesc", "verifyConfiguration"}

\* C13: a readDeviceConfiguration() in which a get call reports an error
\* leaves every field of deviceConfiguration_ as it was before the read.
C13_FailedReadStep ==
    (/\ pc = "configure"
     /\ lastTask'.name = "verifyConfiguration"
     /\ lastTask'.errors > 0)
        => deviceConfiguration_' = deviceConfiguration_
C13_FailedReadKeepsConfiguration == [][C13_FailedReadStep]_vars

\* The edited configuration differs from the device configuration in the
\* maximum power of the USB parameters and in nothing else.
OnlyMaxpowDiffers(edited, device) ==
    /\ edited.usbParameters.maxpow # device.usbParameters.maxpow
    /\ edited = [device EXCEPT !.usbParameters.maxpow =
                                   edited.usbParameters.maxpow]

\* C14: when the edited configuration differs from deviceConfiguration_
\* only in usbParameters.maxpow, the task list of the run is
\* writeUSBParameters, verifyConfiguration; when no channel call of the run
\* reports an error both tasks are executed, and when the configuration
\* read back equals the edited one the run reports success.
C14_MaxpowRun ==
    (tasks # <<>> /\ OnlyMaxpowDiffers(editedConfiguration_, preRun.device))
        => /\ tasks = <<"writeUSBParameters", "verifyConfiguration">>
           /\ (pc = "idle" /\ runErrors = 0)
                  => /\ executed = tasks
                     /\ deviceConfiguration_ = editedConfiguration_
                            => (~err_ /\ outcome = "configured")
C14_Witness ==
    /\ pc = "idle" /\ runErrors = 0
    /\ OnlyMaxpowDiffers(editedConfiguration_, preRun.device)
    /\ preRun.device.usbParameters.maxpow = 50
    /\ editedConfiguration_.usbParameters.maxpow = 60
    /\ nvram.usbParameters.maxpow = 60
    /\ executed = <<"writeUSBParameters", "verifyConfiguration">>
    /\ outcome = "configured"

\* The field of the configuration each NVRAM write task writes.
WriteTasks ==
    {"writeManufacturerDesc", "writeProductDesc", "writeUSBParameters",
     "writeChipSettings"}
FieldOf(name) ==
    CASE name = "writeManufacturerDesc" -> "manufacturer"
      [] name = "writeProductDesc" -> "product"
      [] name = "writeUSBParameters" -> "usbParameters"
      [] name = "writeChipSettings" -> "chipSettings"

\* The k-th task invoked by the run ended without error.
Succeeded(k) ==
    k < Len(executed) \/ (k = Len(executed) /\ lastTask.errors = 0)

\* The channel calls the tasks invoked so far account for: six for the
\* verification, one for any other task.
CallsOf(done) ==
    Len(done)
    + 5 * Cardinality({k \in DOMAIN done : done[k] = "verifyConfiguration"})

\* C15, the state part: during and after a run, failed or not, every NVRAM
\* field written by a task that succeeded holds the edited value, which is
\* not the value of the pre-run deviceConfiguration_, and the run has
\* issued no channel call besides those of the tasks it invoked.
C15_WrittenFieldsKept ==
    tasks # <<>> =>
        /\ \A k \in DOMAIN executed :
              (executed[k] \in WriteTasks /\ Succeeded(k)) =>
                  /\ nvram[FieldOf(executed[k])]
                         = editedConfiguration_[FieldOf(executed[k])]
                  /\ nvram[FieldOf(executed[k])]
                         # preRun.device[FieldOf(executed[k])]
        /\ runCalls = CallsOf(executed)

\* C15, the step part: the NVRAM changes only in a task of the run, and
\* then one field takes its edited value; the end of a run writes nothing.
C15_NoCompensatingWrite ==
    nvram' # nvram =>
        /\ pc = "configure"
        /\ lastTask'.name \in WriteTasks
        /\ nvram' = [nvram EXCEPT ![FieldOf(lastTask'.name)] =
                        editedConfiguration_[FieldOf(lastTask'.name)]]

\* C15: a configuration run never rolls back.
C15_NoRollback ==
    []C15_WrittenFieldsKept /\ [][C15_NoCompensatingWrite]_vars
C15_Witness ==
    /\ outcome = "not completed"
    /\ Len(executed) >= 2
    /\ executed[1] \in WriteTasks
    /\ lastTask.name \in WriteTasks /\ lastTask.errors > 0
    /\ nvram[FieldOf(executed[1])] # preRun.nvram[FieldOf(executed[1])]
    /\ nvram[FieldOf(lastTask.name)] = preRun.nvram[FieldOf(lastTask.name)]

\* C16, the step part: while the loop goes on without transport error,
\* the test bit rate of the next turn is not above that of this turn.
C16_TestRateStep ==
    (pc = "search" /\ pc' = "search" /\ errcnt' = 0)
        => testBitrate' <= testBitrate
C16_TestRateNeverIncreases == [][C16_TestRateStep]_vars

\* C16, the progress part: a search that was entered reaches the restore
\* step and returns.
C16_SearchReturns == (pc = "search") ~> (pc = "idle" /\ lastCall = "restore")

\* C16: for every requested rate the probing loop terminates, and the test
\* bit rate never increases from one turn to the next.
C16_SearchBounded == C16_SearchReturns /\ C16_TestRateNeverIncreases

\* C17, as claimed: every task invoked by configureDevice issues exactly
\* one channel call and then calls validateOperation exactly once.
C17_OneCallPerTask ==
    lastTask.name # "none" =>
        /\ lastTask.calls = 1
        /\ lastTask.validations = 1
        /\ lastTask.errors <= 1

\* C17, amended: every write task and every apply task issues exactly one
\* channel call, verifyConfiguration issues the six get calls of
\* readDeviceConfiguration, and each task then calls validateOperation
\* exactly once, on the errors of all its calls.
C17_CallsPerTask ==
    lastTask.name # "none" =>
        /\ lastTask.calls =
               IF lastTask.name = "verifyConfiguration" THEN 6 ELSE 1
        /\ lastTask.validations = 1
        /\ lastTask.errors <= lastTask.calls
        /\ lastTask.errors > 0 => err_
C17_Witness ==
    /\ lastTask.name = "applyChipSettings" /\ lastTask.calls = 1
    /\ "verifyConfiguration" \in Range(executed)
    /\ "writeChipSettings" \in Range(executed)
    /\ runCalls = 8
    /\ outcome = "configured"

\* The search is under way: between its first call and its return.
Searching == pc \in {"search", "restore"}

\* C18, the step part: no step of getNearestCompatibleBitRate changes the
\* NVRAM or the volatile chip settings, and whenever a step of the loop
\* changes the volatile SPI settings the device then holds the snapshot
\* taken at the start in every field but bitrate.
C18_SearchStep ==
    /\ (Searching \/ pc' = "search")
           => (nvram' = nvram /\ volatileChip' = volatileChip)
    /\ pc' = "search" /\ pc = "idle" => volatileSPI' = volatileSPI
    /\ (pc = "search" /\ lastCall' = "probe" /\ volatileSPI' # volatileSPI)
           => /\ currentSPISettings = preSPI
              /\ [volatileSPI' EXCEPT !.bitrate = preSPI.bitrate] = preSPI
C18_OnlyVolatileSPIWrites == [][C18_SearchStep]_vars
C18_Witness ==
    /\ pc = "search" /\ lastCall = "probe"
    /\ volatileSPI.bitrate # preSPI.bitrate
    /\ volatileSPI.mode = 3 /\ preSPI.mode = 3
    /\ nvram.spiSettings.mode = 0

\* C19: whatever happened earlier in the session, a bit rate search none of
\* whose channel calls reported an error ends with the handler putting the
\* returned rate into the field and showing no error.
C19_CleanSearchStep ==
    (Searching /\ pc' = "idle" /\ errcnt' = 0)
        => /\ outcome' = "rate set"
           /\ doubleSpinBoxBitRate' = retval'
           /\ UNCHANGED <<viewEnabled_, isOpen>>
C19_NegotiationIndependent == [][C19_CleanSearchStep]_vars

\* A run is under way or was the last handler, and the SPI settings of the
\* edited configuration are not those the NVRAM held when the run began.
SPIDiffersFromNVRAM ==
    /\ tasks # <<>>
    /\ editedConfiguration_.spiSettings # preRun.nvram.spiSettings

\* The run is over, none of its channel calls reported an error, and it
\* stopped at the verification with "Failed verification.".
FailedVerificationOnly ==
    (pc = "idle" /\ runErrors = 0)
        => /\ outcome = "not completed"
           /\ lastTask.name = "verifyConfiguration"
           /\ err_ /\ errmsg_ = FailedVerification

FailedAtWrite ==
    /\ pc \in {"configure_end", "idle"}
    /\ tasks # <<>>
    /\ lastTask.name \in WriteTasks /\ lastTask.errors > 0

\* C21, the state part: after a run that failed at an NVRAM write task,
\* deviceConfiguration_ is what it was when the run began, and it differs
\* from the NVRAM in every field an earlier task of the run wrote.
C21_DeviceConfigurationKept ==
    FailedAtWrite =>
        /\ deviceConfiguration_ = preRun.device
        /\ \A k \in 1 .. (Len(executed) - 1) :
              /\ executed[k] \in WriteTasks
              /\ nvram[FieldOf(executed[k])]
                     # deviceConfiguration_[FieldOf(executed[k])]

\* C21, the step part: the task list of the next run is computed against
\* that pre-run value.
C21_NextRunStep ==
    (FailedAtWrite /\ pc = "idle" /\ pc' = "configure")
        => /\ tasks' = prepareTaskList(editedConfiguration_', preRun.device,
                                       checkBoxApplyImmediately')
           /\ preRun'.device = preRun.device

\* C21: a run that fails at an NVRAM write task leaves deviceConfiguration_
\* at its pre-run value, out of step with the NVRAM, and the next task list
\* is computed against it.
C21_StaleAfterFailedWrite ==
    []C21_DeviceConfigurationKept /\ [][C21_NextRunStep]_vars
C21_Witness ==
    /\ FailedAtWrite /\ pc = "idle" /\ viewEnabled_ /\ ~disconnected
    /\ Len(executed) >= 3
    /\ deviceConfiguration_ = preRun.device
    /\ nvram.manufacturer # deviceConfiguration_.manufacturer
    /\ nvram.product # deviceConfiguration_.product
    /\ ops < MaxOps

====
